---- MODULE Spec2Model ----
(***************************************************************************)
(* The poll and vote server actions of the polling application, over the   *)
(* relational store declared in the README's schema.                       *)
(*                                                                         *)
(* A request is one call of a server action.  Every action awaits          *)
(* auth.getUser() and then issues exactly one request to the store; the    *)
(* call is split at that suspension point into a Call step (local          *)
(* validation and getUser) and a Commit step (the store request and the    *)
(* return), so that requests of different callers interleave.              *)
(***************************************************************************)
EXTENDS Integers, Sequences, FiniteSets, Bags, TLC

VARIABLES
    polls,       \* the polls table: a set of rows
    votes,       \* the votes table: a set of rows
    nextPollId,  \* the next poll id the store generates
    nextVoteId,  \* the next vote id the store generates
    now,         \* the wall clock
    reqs,        \* the requests suspended at an await
    response,    \* what the step just taken returned to its caller
    alxPolls,    \* the polls table of the alx-polly and New-poll variants
    poll_options,\* their poll_options table
    results,     \* the results state of the mounted Poll component
    mockPoll,    \* the poll the results page shows
    mockResults, \* the vote counts the results page shows
    rendered,    \* what the results page has rendered
    thrown,      \* the exceptions that have left a server action or a handler
    pollForm,    \* the state of the mounted CreatePollForm component
    authContext  \* the state of the AuthProvider component and of its client

vars == <<polls, votes, nextPollId, nextVoteId, now, reqs, response,
          alxPolls, poll_options, results, mockPoll, mockResults, rendered,
          thrown, pollForm, authContext>>

\* The state of the pages that show results.
viewVars == <<results, mockPoll, mockResults, rendered>>

\* The state of the variants, which the poll actions above never touch.
otherVars == <<alxPolls, poll_options, viewVars, thrown, pollForm, authContext>>

---------------------------------------------------------------------------
(* Bounds *)

MaxPolls == 2
MaxVotes == 2
MaxPending == 2
MaxTime == 1
MaxOptions == 2
MaxCount == 23
MaxThrown == 1
MaxInputs == 11
MaxEvents == 3

---------------------------------------------------------------------------
(* Values *)

Users == {"A", "B"}
NoUser == "null"
Actors == Users \cup {NoUser}

NoError == "null"
NoDate == -1

\* FormData entry values: a string (a sequence of characters) or a File.
Str(s) == [t |-> "string", s |-> s]
FileValue == [t |-> "file", s |-> <<>>]
NullValue == [t |-> "null", s |-> <<>>]

Whitespace == {" "}

\* String.prototype.trim
RECURSIVE TrimStart(_)
TrimStart(s) ==
    IF s # <<>> /\ Head(s) \in Whitespace THEN TrimStart(Tail(s)) ELSE s

RECURSIVE TrimEnd(_)
TrimEnd(s) ==
    IF s # <<>> /\ s[Len(s)] \in Whitespace
    THEN TrimEnd(SubSeq(s, 1, Len(s) - 1))
    ELSE s

Trim(s) == TrimEnd(TrimStart(s))

\* Boolean(v) of a FormData entry: only the empty string and null are falsy.
Truthy(v) == v.t = "file" \/ (v.t = "string" /\ v.s # <<>>)

IsString(v) == v.t = "string"

---------------------------------------------------------------------------
(* The store.  A request names a table, a verb and a conjunction of        *)
(* equality filters; the store applies exactly the filters it is given     *)
(* (the security report in SECURITY-README.md records that a delete        *)
(* filtered by id alone removed any user's poll).                          *)

\* A store that takes a filter as a disjunction.
MatchesAny(row, filter) == \E c \in DOMAIN filter : row[c] = filter[c]

Matches(row, filter) == \A c \in DOMAIN filter : row[c] = filter[c]

GatewaySelect(table, filter) == {r \in table : Matches(r, filter)}

GatewayDelete(table, filter) == {r \in table : ~Matches(r, filter)}

GatewayUpdate(table, filter, changes) ==
    {IF Matches(r, filter)
     THEN [c \in DOMAIN r |-> IF c \in DOMAIN changes THEN changes[c] ELSE r[c]]
     ELSE r : r \in table}

\* votes.poll_id REFERENCES polls(id) ON DELETE CASCADE
CascadeVotes(voteTable, pollTable) ==
    {v \in voteTable : \E p \in pollTable : p.id = v.poll_id}

\* A votes table without the foreign key.
ForeignKeyOff(pollTable, pollId) == TRUE

\* votes.poll_id REFERENCES polls(id): the insert of a vote is refused
\* when no poll has that id.
ForeignKeyOk(pollTable, pollId) == \E p \in pollTable : p.id = pollId

\* Messages the store and the identity provider put in error.message.
DbErrorMessage == "connection to server failed"
FkErrorMessage == "violates foreign key constraint votes_poll_id_fkey"
AuthErrorMessage == "Auth session missing"

---------------------------------------------------------------------------
(* Requests and responses *)

NoSettings == [allowMultipleVotes |-> TRUE, requireAuthentication |-> FALSE,
               endDate |-> NoDate]

Request(op, user, pollId, question, options, optionIndex, settings) ==
    [op |-> op, user |-> user, pollId |-> pollId, question |-> question,
     options |-> options, optionIndex |-> optionIndex, settings |-> settings]

Response(op, user, pollId, error, data) ==
    [op |-> op, user |-> user, pollId |-> pollId, error |-> error, data |-> data]

NoResponse == Response("none", NoUser, 0, NoError, <<>>)

Pending == BagToSet(reqs)

PendingOf(op) == {r \in Pending : r.op = op}

CountOf(op) ==
    LET S == PendingOf(op)
        RECURSIVE Sum(_)
        Sum(T) == IF T = {} THEN 0
                  ELSE LET r == CHOOSE x \in T : TRUE
                       IN reqs[r] + Sum(T \ {r})
    IN Sum(S)

Suspend(r) == reqs' = reqs (+) SetToBag({r})

Resume(r) == reqs' = reqs (-) SetToBag({r})

\* supabase.auth.getUser(): the caller's identity, or an error.
GetUser(actor, authOk) ==
    IF authOk THEN [user |-> actor, error |-> NoError]
    ELSE [user |-> NoUser, error |-> AuthErrorMessage]

Respond(op, user, pollId, error, data) ==
    response' = Response(op, user, pollId, error, data)

---------------------------------------------------------------------------
(* Rows *)

PollRow(id, user_id, question, options, settings, created_at) ==
    [id |-> id, user_id |-> user_id, question |-> question, options |-> options,
     allowMultipleVotes |-> settings.allowMultipleVotes,
     requireAuthentication |-> settings.requireAuthentication,
     endDate |-> settings.endDate,
     created_at |-> created_at]

VoteRow(id, poll_id, user_id, option_index) ==
    [id |-> id, poll_id |-> poll_id, user_id |-> user_id,
     option_index |-> option_index]

---------------------------------------------------------------------------
(* createPoll *)

\* typeof opt === 'string' ? opt.trim() : ''
SanitizeOption(opt) == IF IsString(opt) THEN Str(Trim(opt.s)) ELSE Str(<<>>)

SanitizedOptions(options) ==
    LET given == SelectSeq(options, Truthy)
    IN  SelectSeq([i \in 1..Len(given) |-> SanitizeOption(given[i])], Truthy)

\* The inputs createPoll returns a validation error for.
CreatePollInvalid(form) ==
    \/ ~IsString(form.question)
    \/ Trim(form.question.s) = <<>>
    \/ Len(SanitizedOptions(form.options)) < 2

CreatePollCall(actor, authOk, form, settings) ==
    /\ nextPollId + CountOf("createPoll") <= MaxPolls
    /\ BagCardinality(reqs) < MaxPending
    /\ UNCHANGED <<polls, votes, nextPollId, nextVoteId, now>>
    /\ UNCHANGED otherVars
    /\ IF ~IsString(form.question)
       THEN /\ Respond("createPoll", actor, 0, "Invalid form data.", <<>>)
            /\ UNCHANGED reqs
       ELSE LET sanitizedQuestion == Trim(form.question.s)
                sanitizedOptions == SanitizedOptions(form.options)
                auth == GetUser(actor, authOk)
            IN  IF sanitizedQuestion = <<>> \/ Len(sanitizedOptions) < 2
                THEN /\ Respond("createPoll", actor, 0,
                           "Please provide a question and at least two options.", <<>>)
                     /\ UNCHANGED reqs
                ELSE IF auth.error # NoError
                THEN /\ Respond("createPoll", actor, 0, auth.error, <<>>)
                     /\ UNCHANGED reqs
                ELSE IF auth.user = NoUser
                THEN /\ Respond("createPoll", actor, 0,
                           "You must be logged in to create a poll.", <<>>)
                     /\ UNCHANGED reqs
                ELSE /\ Suspend(Request("createPoll", auth.user, 0,
                           Str(sanitizedQuestion), sanitizedOptions, 0, settings))
                     /\ response' = NoResponse

CreatePollCommit(r, dbOk) ==
    /\ r \in PendingOf("createPoll")
    /\ Resume(r)
    /\ UNCHANGED <<votes, nextVoteId, now>>
    /\ UNCHANGED otherVars
    /\ IF dbOk
       THEN /\ polls' = polls \cup
                   {PollRow(nextPollId, r.user, r.question, r.options, r.settings, now)}
            /\ nextPollId' = nextPollId + 1
            /\ Respond("createPoll", r.user, nextPollId, NoError, <<>>)
       ELSE /\ UNCHANGED <<polls, nextPollId>>
            /\ Respond("createPoll", r.user, 0, DbErrorMessage, <<>>)

---------------------------------------------------------------------------
(* updatePoll *)

UpdatePollCall(actor, authOk, pollId, form) ==
    /\ BagCardinality(reqs) < MaxPending
    /\ UNCHANGED <<polls, votes, nextPollId, nextVoteId, now>>
    /\ UNCHANGED otherVars
    /\ LET question == form.question
           options == SelectSeq(form.options, Truthy)
           auth == GetUser(actor, authOk)
       IN  IF ~Truthy(question) \/ Len(options) < 2
           THEN /\ Respond("updatePoll", actor, pollId,
                      "Please provide a question and at least two options.", <<>>)
                /\ UNCHANGED reqs
           ELSE IF auth.error # NoError
           THEN /\ Respond("updatePoll", actor, pollId, auth.error, <<>>)
                /\ UNCHANGED reqs
           ELSE IF auth.user = NoUser
           THEN /\ Respond("updatePoll", actor, pollId,
                      "You must be logged in to update a poll.", <<>>)
                /\ UNCHANGED reqs
           ELSE /\ Suspend(Request("updatePoll", auth.user, pollId,
                      question, options, 0, NoSettings))
                /\ response' = NoResponse

UpdatePollFilter(r) == [id |-> r.pollId, user_id |-> r.user]

\* An update that writes the caller as the row's user_id, filtered by id.
UpdatePollCommitReassign(r, dbOk) ==
    /\ r \in PendingOf("updatePoll")
    /\ Resume(r)
    /\ UNCHANGED <<votes, nextPollId, nextVoteId, now>>
    /\ UNCHANGED otherVars
    /\ IF dbOk
       THEN /\ polls' = GatewayUpdate(polls, [id |-> r.pollId],
                   [question |-> r.question, options |-> r.options,
                    user_id |-> r.user])
            /\ Respond("updatePoll", r.user, r.pollId, NoError, <<>>)
       ELSE /\ UNCHANGED polls
            /\ Respond("updatePoll", r.user, r.pollId, DbErrorMessage, <<>>)

UpdatePollCommit(r, dbOk) ==
    /\ r \in PendingOf("updatePoll")
    /\ Resume(r)
    /\ UNCHANGED <<votes, nextPollId, nextVoteId, now>>
    /\ UNCHANGED otherVars
    /\ IF dbOk
       THEN /\ polls' = GatewayUpdate(polls, UpdatePollFilter(r),
                   [question |-> r.question, options |-> r.options])
            /\ Respond("updatePoll", r.user, r.pollId, NoError, <<>>)
       ELSE /\ UNCHANGED polls
            /\ Respond("updatePoll", r.user, r.pollId, DbErrorMessage, <<>>)

---------------------------------------------------------------------------
(* deletePoll *)

DeletePollCall(actor, authOk, pollId) ==
    /\ BagCardinality(reqs) < MaxPending
    /\ UNCHANGED <<polls, votes, nextPollId, nextVoteId, now>>
    /\ UNCHANGED otherVars
    /\ LET auth == GetUser(actor, authOk)
       IN  IF auth.error # NoError \/ auth.user = NoUser
           THEN /\ Respond("deletePoll", actor, pollId,
                      "You must be logged in to delete a poll.", <<>>)
                /\ UNCHANGED reqs
           ELSE /\ Suspend(Request("deletePoll", auth.user, pollId,
                      NullValue, <<>>, 0, NoSettings))
                /\ response' = NoResponse

\* The delete of the security report: filtered by id alone.
DeletePollFilterIdOnly(r) == [id |-> r.pollId]

DeletePollFilter(r) == [id |-> r.pollId, user_id |-> r.user]

\* A deletePoll that reports a delete which matched no row.
DeletePollCommitStrict(r, dbOk) ==
    /\ r \in PendingOf("deletePoll")
    /\ Resume(r)
    /\ UNCHANGED <<nextPollId, nextVoteId, now>>
    /\ UNCHANGED otherVars
    /\ IF dbOk /\ GatewaySelect(polls, DeletePollFilter(r)) # {}
       THEN /\ polls' = GatewayDelete(polls, DeletePollFilter(r))
            /\ votes' = CascadeVotes(votes, polls')
            /\ Respond("deletePoll", r.user, r.pollId, NoError, <<>>)
       ELSE /\ UNCHANGED <<polls, votes>>
            /\ Respond("deletePoll", r.user, r.pollId,
                   IF dbOk THEN "Poll not found" ELSE DbErrorMessage, <<>>)

DeletePollCommit(r, dbOk) ==
    /\ r \in PendingOf("deletePoll")
    /\ Resume(r)
    /\ UNCHANGED <<nextPollId, nextVoteId, now>>
    /\ UNCHANGED otherVars
    /\ IF dbOk
       THEN /\ polls' = GatewayDelete(polls, DeletePollFilter(r))
            /\ votes' = CascadeVotes(votes, polls')
            /\ Respond("deletePoll", r.user, r.pollId, NoError, <<>>)
       ELSE /\ UNCHANGED <<polls, votes>>
            /\ Respond("deletePoll", r.user, r.pollId, DbErrorMessage, <<>>)

---------------------------------------------------------------------------
(* submitVote *)

\* getUser's error is not read: a failed getUser leaves user null.
SubmitVoteCall(actor, authOk, pollId, optionIndex) ==
    /\ nextVoteId + CountOf("submitVote") <= MaxVotes
    /\ BagCardinality(reqs) < MaxPending
    /\ UNCHANGED <<polls, votes, nextPollId, nextVoteId, now>>
    /\ UNCHANGED otherVars
    /\ LET auth == GetUser(actor, authOk)
       IN  /\ Suspend(Request("submitVote", auth.user, pollId,
                 NullValue, <<>>, optionIndex, NoSettings))
           /\ response' = NoResponse

SubmitVoteRow(r) == VoteRow(nextVoteId, r.pollId, r.user, r.optionIndex)

SubmitVoteCommit(r, dbOk) ==
    /\ r \in PendingOf("submitVote")
    /\ Resume(r)
    /\ UNCHANGED <<polls, nextPollId, now>>
    /\ UNCHANGED otherVars
    /\ IF ~dbOk
       THEN /\ UNCHANGED <<votes, nextVoteId>>
            /\ Respond("submitVote", r.user, r.pollId, DbErrorMessage, <<>>)
       ELSE IF ~ForeignKeyOk(polls, r.pollId)
       THEN /\ UNCHANGED <<votes, nextVoteId>>
            /\ Respond("submitVote", r.user, r.pollId, FkErrorMessage, <<>>)
       ELSE /\ votes' = votes \cup {SubmitVoteRow(r)}
            /\ nextVoteId' = nextVoteId + 1
            /\ Respond("submitVote", r.user, r.pollId, NoError, <<>>)

---------------------------------------------------------------------------
(* getPollById, getUserPolls *)

SingleErrorMessage == "JSON object requested, multiple (or no) rows returned"

\* One store request and no getUser: a single step, the same for every
\* caller.
GetPollById(pollId, dbOk) ==
    /\ UNCHANGED <<polls, votes, nextPollId, nextVoteId, now, reqs>>
    /\ UNCHANGED otherVars
    /\ LET rows == GatewaySelect(polls, [id |-> pollId])
       IN  IF ~dbOk
           THEN Respond("getPollById", NoUser, pollId, DbErrorMessage, <<>>)
           ELSE IF Cardinality(rows) # 1
           THEN Respond("getPollById", NoUser, pollId, SingleErrorMessage, <<>>)
           ELSE Respond("getPollById", NoUser, pollId, NoError,
                    <<CHOOSE row \in rows : TRUE>>)

\* The orders .order("created_at", {ascending: false}) may return.
NewestFirst(rows) ==
    {s \in [1..Cardinality(rows) -> rows] :
        /\ \A i, j \in DOMAIN s : i # j => s[i] # s[j]
        /\ \A i, j \in DOMAIN s : i < j => s[i].created_at >= s[j].created_at}

GetUserPollsCall(actor, authOk) ==
    /\ BagCardinality(reqs) < MaxPending
    /\ UNCHANGED <<polls, votes, nextPollId, nextVoteId, now>>
    /\ UNCHANGED otherVars
    /\ LET auth == GetUser(actor, authOk)
       IN  IF auth.user = NoUser
           THEN /\ Respond("getUserPolls", actor, 0, "Not authenticated", <<>>)
                /\ UNCHANGED reqs
           ELSE /\ Suspend(Request("getUserPolls", auth.user, 0,
                      NullValue, <<>>, 0, NoSettings))
                /\ response' = NoResponse

\* A getUserPolls whose select has no filter on user_id.
GetUserPollsCommitAll(r, dbOk) ==
    /\ r \in PendingOf("getUserPolls")
    /\ Resume(r)
    /\ UNCHANGED <<polls, votes, nextPollId, nextVoteId, now>>
    /\ UNCHANGED otherVars
    /\ IF dbOk
       THEN \E data \in NewestFirst(polls) :
                Respond("getUserPolls", r.user, 0, NoError, data)
       ELSE Respond("getUserPolls", r.user, 0, DbErrorMessage, <<>>)

GetUserPollsCommit(r, dbOk) ==
    /\ r \in PendingOf("getUserPolls")
    /\ Resume(r)
    /\ UNCHANGED <<polls, votes, nextPollId, nextVoteId, now>>
    /\ UNCHANGED otherVars
    /\ IF dbOk
       THEN \E data \in NewestFirst(GatewaySelect(polls, [user_id |-> r.user])) :
                Respond("getUserPolls", r.user, 0, NoError, data)
       ELSE Respond("getUserPolls", r.user, 0, DbErrorMessage, <<>>)

---------------------------------------------------------------------------
(* createClient *)

EnvMissingMessage == "Missing or empty Supabase environment variables."

\* createClient(): a client, or the Error it throws when the environment
\* variables are missing or empty.
CreateClient(envOk) ==
    IF envOk THEN [client |-> TRUE, error |-> NoError]
    ELSE [client |-> FALSE, error |-> EnvMissingMessage]

\* The server actions, each of which starts with `await createClient()'.
PublicOperations ==
    {"createPoll", "getUserPolls", "getPollById", "submitVote", "deletePoll",
     "updatePoll"}

\* A call of a server action while no client can be created.  No action
\* has a try statement: the Error of createClient leaves the action, which
\* returns no result and has touched neither the store nor the identity
\* provider.
CallWithoutClient(op, actor) ==
    /\ Cardinality(thrown) < MaxThrown
    /\ LET supabase == CreateClient(FALSE)
       IN  thrown' = thrown \cup {[op |-> op, user |-> actor, error |-> supabase.error]}
    /\ response' = NoResponse
    /\ UNCHANGED <<polls, votes, nextPollId, nextVoteId, now, reqs>>
    /\ UNCHANGED <<alxPolls, poll_options, viewVars, pollForm, authContext>>

---------------------------------------------------------------------------
(* Time *)

Tick ==
    /\ now < MaxTime
    /\ now' = now + 1
    /\ response' = NoResponse
    /\ UNCHANGED <<polls, votes, nextPollId, nextVoteId, reqs>>
    /\ UNCHANGED otherVars

\* The derived lifecycle state of the Poll type: endDate set and reached.
Closed(poll) == poll.endDate # NoDate /\ now >= poll.endDate

---------------------------------------------------------------------------
(* createPoll of the alx-polly variant: two store requests *)

\* if (formData.options.length > 10)
MaxPollOptions == 10

MockUserId == "mock-user-id"
DemoUserId == "demo-user"

\* option => option.trim()
NonBlank(opt) == Trim(opt.s) # <<>>

\* validOptions.map(o => o.trim())
TrimOptions(validOptions) ==
    [i \in 1..Len(validOptions) |-> Str(Trim(validOptions[i].s))]

AlxPollRow(id, creator_id, title, settings) ==
    [id |-> id, creator_id |-> creator_id, title |-> title,
     allow_multiple_votes |-> settings.allowMultipleVotes,
     allow_anonymous_votes |-> ~settings.requireAuthentication]

\* validOptions.map((text, index) => ({poll_id, text: text.trim(), order_index: index}))
OptionsData(pollId, validOptions) ==
    {[poll_id |-> pollId, text |-> Trim(validOptions[i].s), order_index |-> i - 1] :
        i \in 1..Len(validOptions)}

\* The caller's identity is carried in the request only to name the caller:
\* the action never asks the identity provider for it.
CreatePollAlxCall(actor, form, settings) ==
    /\ nextPollId + CountOf("createPollAlx") <= MaxPolls
    /\ BagCardinality(reqs) < MaxPending
    /\ UNCHANGED <<polls, votes, nextPollId, nextVoteId, now, otherVars>>
    /\ IF ~IsString(form.question)
       THEN /\ Respond("createPollAlx", actor, 0, "An unexpected error occurred", <<>>)
            /\ UNCHANGED reqs
       ELSE IF Trim(form.question.s) = <<>>
       THEN /\ Respond("createPollAlx", actor, 0, "Title is required", <<>>)
            /\ UNCHANGED reqs
       ELSE IF Len(form.options) < 2
       THEN /\ Respond("createPollAlx", actor, 0, "At least 2 options are required", <<>>)
            /\ UNCHANGED reqs
       ELSE IF Len(form.options) > MaxPollOptions
       THEN /\ Respond("createPollAlx", actor, 0, "Maximum 10 options allowed", <<>>)
            /\ UNCHANGED reqs
       ELSE IF \E i \in DOMAIN form.options : ~IsString(form.options[i])
       THEN /\ Respond("createPollAlx", actor, 0, "An unexpected error occurred", <<>>)
            /\ UNCHANGED reqs
       ELSE IF Len(SelectSeq(form.options, NonBlank)) < 2
       THEN /\ Respond("createPollAlx", actor, 0, "All options must have text", <<>>)
            /\ UNCHANGED reqs
       ELSE /\ Suspend(Request("createPollAlx", actor, 0, Str(Trim(form.question.s)),
                  SelectSeq(form.options, NonBlank), 0, settings))
            /\ response' = NoResponse

CreatePollAlxInsertPoll(r, dbOk) ==
    /\ r \in PendingOf("createPollAlx")
    /\ UNCHANGED <<polls, votes, nextVoteId, now, poll_options, viewVars, thrown, pollForm, authContext>>
    /\ IF dbOk
       THEN /\ alxPolls' = alxPolls \cup
                   {AlxPollRow(nextPollId, MockUserId, r.question, r.settings)}
            /\ nextPollId' = nextPollId + 1
            /\ reqs' = (reqs (-) SetToBag({r})) (+)
                   SetToBag({[r EXCEPT !.op = "createPollAlxOptions",
                                       !.pollId = nextPollId]})
            /\ response' = NoResponse
       ELSE /\ UNCHANGED <<alxPolls, nextPollId>>
            /\ Resume(r)
            /\ Respond("createPollAlx", r.user, 0, "Failed to create poll", <<>>)

CreatePollAlxInsertOptions(r, dbOk) ==
    /\ r \in PendingOf("createPollAlxOptions")
    /\ Resume(r)
    /\ UNCHANGED <<polls, votes, nextPollId, nextVoteId, now, alxPolls, viewVars,
                   thrown, pollForm, authContext>>
    /\ IF dbOk
       THEN /\ poll_options' = poll_options \cup OptionsData(r.pollId, r.options)
            /\ Respond("createPollAlx", r.user, r.pollId, NoError, <<>>)
       ELSE /\ UNCHANGED poll_options
            /\ Respond("createPollAlx", r.user, r.pollId,
                   "Failed to create poll options", <<>>)

---------------------------------------------------------------------------
(* createPoll of the New-poll variant: one remote procedure call *)

CreatePollNewCall(actor, form, settings) ==
    /\ nextPollId + CountOf("createPollNew") <= MaxPolls
    /\ BagCardinality(reqs) < MaxPending
    /\ UNCHANGED <<polls, votes, nextPollId, nextVoteId, now, otherVars>>
    /\ IF ~IsString(form.question)
       THEN /\ Respond("createPollNew", actor, 0, "An unexpected error occurred", <<>>)
            /\ UNCHANGED reqs
       ELSE IF Trim(form.question.s) = <<>>
       THEN /\ Respond("createPollNew", actor, 0, "Title is required", <<>>)
            /\ UNCHANGED reqs
       ELSE IF \E i \in DOMAIN form.options : ~IsString(form.options[i])
       THEN /\ Respond("createPollNew", actor, 0, "An unexpected error occurred", <<>>)
            /\ UNCHANGED reqs
       ELSE IF Len(SelectSeq(form.options, NonBlank)) < 2
       THEN /\ Respond("createPollNew", actor, 0, "At least 2 options are required", <<>>)
            /\ UNCHANGED reqs
       ELSE /\ Suspend(Request("createPollNew", actor, 0, Str(Trim(form.question.s)),
                  TrimOptions(SelectSeq(form.options, NonBlank)), 0, settings))
            /\ response' = NoResponse

\* create_poll_with_options: the poll and its options in one transaction.
CreatePollNewRpc(r, dbOk) ==
    /\ r \in PendingOf("createPollNew")
    /\ Resume(r)
    /\ UNCHANGED <<polls, votes, nextVoteId, now, viewVars, thrown, pollForm, authContext>>
    /\ IF dbOk
       THEN /\ alxPolls' = alxPolls \cup
                   {AlxPollRow(nextPollId, DemoUserId, r.question, r.settings)}
            /\ poll_options' = poll_options \cup OptionsData(nextPollId, r.options)
            /\ nextPollId' = nextPollId + 1
            /\ Respond("createPollNew", r.user, nextPollId, NoError, <<>>)
       ELSE /\ UNCHANGED <<alxPolls, poll_options, nextPollId>>
            /\ Respond("createPollNew", r.user, 0, "Failed to create poll", <<>>)

---------------------------------------------------------------------------
(* The CreatePollForm component, in its three versions: the one with a     *)
(* title state (part_003), the one that reads the title from its form data *)
(* (part_007) and the one of alx-polly, which has a question.              *)

FormVersions == {"part_003", "part_007", "alx-polly"}

\* if (options.length < 10)
MaxOptionInputs == 10

\* if (options.length > 2)
MinOptionInputs == 2

\* useState(''), useState(['', '']), useState(null), useState(false); no
\* transition is pending and createPoll has not been called.
InitialForm(version) ==
    [version |-> version, title |-> <<>>, options |-> <<Str(<<>>), Str(<<>>)>>,
     error |-> NoError, success |-> FALSE, isPending |-> FALSE,
     pollData |-> [question |-> Str(<<>>), options |-> <<>>], called |-> FALSE]

\* isPublic: true, allowMultipleVotes: false, allowAnonymousVotes: true
FormSettings ==
    [allowMultipleVotes |-> FALSE, requireAuthentication |-> FALSE, endDate |-> NoDate]

\* options.filter((_, i) => i !== index), and splice(index, 1)
RemoveAt(options, index) ==
    [i \in 1..(Len(options) - 1) |->
        IF i <= index THEN options[i] ELSE options[i + 1]]

FormEvent(changed) ==
    /\ pollForm' = changed
    /\ UNCHANGED <<polls, votes, nextPollId, nextVoteId, now, reqs, response>>
    /\ UNCHANGED <<alxPolls, poll_options, viewVars, thrown, authContext>>

\* onChange of the title input
SetTitle(value) == FormEvent([pollForm EXCEPT !.title = value])

\* The inputs are those rendered: 0 <= index < options.length.
HandleOptionChange(index, value) ==
    /\ index < Len(pollForm.options)
    /\ FormEvent([pollForm EXCEPT !.options[index + 1] = Str(value)])

\* The button is rendered while options.length < 10.
HandleAddOption ==
    /\ pollForm.version \in {"part_003", "part_007"}
    /\ Len(pollForm.options) < MaxOptionInputs
    /\ FormEvent(IF Len(pollForm.options) < MaxOptionInputs
                 THEN [pollForm EXCEPT !.options = Append(pollForm.options, Str(<<>>))]
                 ELSE pollForm)

\* addOption of alx-polly: the button is always rendered.
AddOption ==
    /\ pollForm.version = "alx-polly"
    /\ Len(pollForm.options) < MaxInputs
    /\ FormEvent([pollForm EXCEPT !.options = Append(pollForm.options, Str(<<>>))])

\* The buttons are rendered while options.length > 2.
HandleRemoveOption(index) ==
    /\ pollForm.version \in {"part_003", "part_007"}
    /\ Len(pollForm.options) > MinOptionInputs
    /\ index < Len(pollForm.options)
    /\ FormEvent(IF Len(pollForm.options) > MinOptionInputs
                 THEN [pollForm EXCEPT !.options = RemoveAt(pollForm.options, index)]
                 ELSE pollForm)

\* removeOption of alx-polly
RemoveOption(index) ==
    /\ pollForm.version = "alx-polly"
    /\ Len(pollForm.options) > MinOptionInputs
    /\ index < Len(pollForm.options)
    /\ FormEvent([pollForm EXCEPT !.options = RemoveAt(pollForm.options, index)])

\* createPoll({title, description, options: validOptions, ...}) inside
\* startTransition: the form keeps what it calls createPoll with.
CallCreatePoll(title) ==
    [pollForm EXCEPT !.error = NoError, !.isPending = TRUE, !.called = TRUE,
                     !.pollData = [question |-> Str(title),
                                   options |-> SelectSeq(pollForm.options, NonBlank)]]

\* handleSubmit of part_003.  The submit button is disabled while the
\* transition is pending.
HandleSubmit ==
    /\ pollForm.version = "part_003"
    /\ ~pollForm.isPending
    /\ UNCHANGED <<polls, votes, nextPollId, nextVoteId, now, reqs>>
    /\ UNCHANGED <<alxPolls, poll_options, viewVars, thrown, authContext>>
    /\ response' = NoResponse
    /\ LET validOptions == SelectSeq(pollForm.options, NonBlank)
       IN  IF Trim(pollForm.title) = <<>>
           THEN pollForm' = [pollForm EXCEPT !.error = "Title is required"]
           ELSE IF Len(validOptions) < 2
           THEN pollForm' =
                    [pollForm EXCEPT !.error = "At least 2 options are required"]
           ELSE pollForm' = CallCreatePoll(pollForm.title)

\* What the form element passes to its onSubmit handler, and what
\* handleSubmit of part_007 declares as its parameter.
SubmitEvent == [t |-> "SubmitEvent", title |-> <<>>]

FormDataOf(title) == [t |-> "FormData", title |-> title]

TypeErrorMessage == "formData.get is not a function"

\* handleSubmit of part_007: <form onSubmit={handleSubmit}>.  It reads the
\* title with formData.get('title'), which only a FormData has, and does
\* not check the title.
HandleSubmitFormData(formData) ==
    /\ pollForm.version = "part_007"
    /\ ~pollForm.isPending
    /\ UNCHANGED <<polls, votes, nextPollId, nextVoteId, now, reqs>>
    /\ UNCHANGED <<alxPolls, poll_options, viewVars, authContext>>
    /\ response' = NoResponse
    /\ LET validOptions == SelectSeq(pollForm.options, NonBlank)
           cleared == [pollForm EXCEPT !.error = NoError, !.success = FALSE]
       IN  IF formData.t # "FormData"
           THEN /\ pollForm' = cleared
                /\ thrown' = thrown \cup
                       {[op |-> "handleSubmit", user |-> NoUser,
                         error |-> TypeErrorMessage]}
           ELSE /\ UNCHANGED thrown
                /\ IF Len(validOptions) < 2
                   THEN pollForm' = [cleared EXCEPT
                                        !.error = "At least 2 options are required"]
                   ELSE pollForm' = [CallCreatePoll(formData.title) EXCEPT
                                        !.success = FALSE]

\* The call of createPoll the form has started and not yet made.
CallStarted ==
    /\ pollForm.isPending
    /\ response.op # "createPollAlx"
    /\ PendingOf("createPollAlx") \cup PendingOf("createPollAlxOptions") = {}

\* The call of createPoll has returned its result to the form.
CallReturned ==
    /\ pollForm.isPending
    /\ response.op = "createPollAlx"
    /\ PendingOf("createPollAlx") \cup PendingOf("createPollAlxOptions") = {}

\* The rest of handleSubmit, after `await createPoll(...)'.
HandleSubmitResult ==
    /\ CallReturned
    /\ UNCHANGED <<polls, votes, nextPollId, nextVoteId, now, reqs>>
    /\ UNCHANGED <<alxPolls, poll_options, viewVars, thrown, authContext>>
    /\ response' = NoResponse
    /\ IF response.error # NoError
       THEN pollForm' = [pollForm EXCEPT !.error = response.error,
                                         !.isPending = FALSE]
       ELSE IF pollForm.version = "part_003"
       THEN pollForm' = [pollForm EXCEPT !.success = TRUE, !.title = <<>>,
                                         !.options = <<Str(<<>>), Str(<<>>)>>,
                                         !.isPending = FALSE]
       ELSE pollForm' = [pollForm EXCEPT !.success = TRUE, !.isPending = FALSE]

---------------------------------------------------------------------------
(* The AuthProvider component.  Its effect starts getUser() and subscribes *)
(* to the auth state changes of the client; a session is named by the      *)
(* user it belongs to.                                                     *)

NoSession == "null"

Sessions == {"session of A", "session of B"}

\* session?.user ?? null
SessionUser(session) ==
    IF session = "session of A" THEN "A"
    ELSE IF session = "session of B" THEN "B"
    ELSE NoUser

\* useState(null), useState(null), useState(true); the effect has run:
\* mounted = true, getUser() is awaiting its answer and the listener is
\* subscribed.  `current' is the session the client holds, `latest' the
\* session of the latest auth state change and `events' their number.
InitialAuth ==
    [session |-> NoSession, user |-> NoUser, loading |-> TRUE, mounted |-> TRUE,
     getUserPending |-> TRUE, current |-> NoSession, latest |-> NoSession,
     events |-> 0]

AuthStep(changed) ==
    /\ authContext' = changed
    /\ response' = NoResponse
    /\ UNCHANGED <<polls, votes, nextPollId, nextVoteId, now, reqs>>
    /\ UNCHANGED <<alxPolls, poll_options, viewVars, thrown, pollForm>>

\* The client changes its session (initial session, sign in, sign out) and
\* calls the listeners subscribed: setSession(session),
\* setUser(session?.user ?? null).  After the cleanup of the effect the
\* listener is unsubscribed.
OnAuthStateChange(session) ==
    /\ authContext.events < MaxEvents
    /\ AuthStep(IF authContext.mounted
                THEN [authContext EXCEPT !.session = session,
                                         !.user = SessionUser(session),
                                         !.current = session,
                                         !.latest = session,
                                         !.events = @ + 1]
                ELSE [authContext EXCEPT !.current = session, !.events = @ + 1])

\* The answer of supabase.auth.getUser() arrives: the user of the session
\* the client holds, or an error and no user.
GetUserAnswer(authOk) ==
    /\ authContext.getUserPending
    /\ LET data == GetUser(SessionUser(authContext.current), authOk)
       IN  AuthStep(IF authContext.mounted
                    THEN [authContext EXCEPT !.user = data.user,
                                             !.session = NoSession,
                                             !.loading = FALSE,
                                             !.getUserPending = FALSE]
                    ELSE [authContext EXCEPT !.getUserPending = FALSE])

\* The cleanup of the effect: mounted = false and unsubscribe().
Unmount ==
    /\ authContext.mounted
    /\ AuthStep([authContext EXCEPT !.mounted = FALSE])

---------------------------------------------------------------------------
(* Numbers.  A Number is an IEEE 754 binary64 value; the ones the results  *)
(* page computes are zero or positive and at most 100.  A positive Number  *)
(* is `bits', its 53 significant binary digits from the leading 1, and     *)
(* `exp', the power of two of that leading digit.                          *)

Precision == 53

ZeroNumber == [zero |-> TRUE, bits |-> <<>>, exp |-> 0]

\* The binary digits of a natural number n > 0, the leading 1 first.
RECURSIVE NatBits(_)
NatBits(n) == IF n < 2 THEN <<n>> ELSE Append(NatBits(n \div 2), n % 2)

\* The natural number a sequence of binary digits writes.
RECURSIVE BitsNat(_)
BitsNat(bits) ==
    IF bits = <<>> THEN 0
    ELSE 2 * BitsNat(SubSeq(bits, 1, Len(bits) - 1)) + bits[Len(bits)]

RECURSIVE Shift(_, _)
Shift(r, z) == IF z = 0 THEN r ELSE Shift(2 * r, z - 1)

\* Long arithmetic is done 9 binary digits at a time: a limb is a natural
\* number below 2^9.
LimbBits(limb) == [i \in 1..9 |-> (limb \div Shift(1, 9 - i)) % 2]

\* The binary digits of a sequence of limbs, the most significant first.
LimbsBits(limbs) ==
    [i \in 1..(9 * Len(limbs)) |->
        LimbBits(limbs[((i - 1) \div 9) + 1])[((i - 1) % 9) + 1]]

\* The limbs of a sequence of binary digits whose length is a multiple of 9.
BitsLimbs(bits) ==
    [j \in 1..(Len(bits) \div 9) |-> BitsNat(SubSeq(bits, 9 * (j - 1) + 1, 9 * j))]

\* The first n limbs of r / t after the point, for r < t, followed by the
\* remainder that is left.
RECURSIVE Expand(_, _, _)
Expand(r, t, n) ==
    IF n = 0 THEN <<r>>
    ELSE <<(r * Shift(1, 9)) \div t>> \o Expand((r * Shift(1, 9)) % t, t, n - 1)

\* The number of zeros between the point and the first 1 of r / t, 0 < r < t.
RECURSIVE LeadingZeros(_, _)
LeadingZeros(r, t) == IF 2 * r >= t THEN 0 ELSE 1 + LeadingZeros(2 * r, t)

\* bits + 1, for bits that are not all 1.
Increment(bits) ==
    LET last == CHOOSE i \in DOMAIN bits :
                    bits[i] = 0 /\ \A j \in (i + 1)..Len(bits) : bits[j] = 1
    IN  [i \in DOMAIN bits |-> IF i < last THEN bits[i] ELSE IF i = last THEN 1 ELSE 0]

\* The digits from the first 1 on.
StripZeros(bits) ==
    LET first == CHOOSE i \in DOMAIN bits :
                     bits[i] = 1 /\ \A j \in 1..(i - 1) : bits[j] = 0
    IN  SubSeq(bits, first, Len(bits))

\* Rounding to nearest, ties to even: the Number nearest to the exact value
\* whose binary digits from its leading 1 (of power exp) are `digits',
\* followed by more nonzero digits when `sticky'.
RoundToNearestEven(digits, sticky, exp) ==
    LET kept == SubSeq(digits, 1, Precision)
        roundBit == digits[Precision + 1]
        rest == \E i \in (Precision + 2)..Len(digits) : digits[i] = 1
        up == roundBit = 1 /\ (sticky \/ rest \/ kept[Precision] = 1)
    IN  IF ~up THEN [zero |-> FALSE, bits |-> kept, exp |-> exp]
        ELSE IF \A i \in 1..Precision : kept[i] = 1
        THEN [zero |-> FALSE,
              bits |-> [i \in 1..Precision |-> IF i = 1 THEN 1 ELSE 0],
              exp |-> exp + 1]
        ELSE [zero |-> FALSE, bits |-> Increment(kept), exp |-> exp]

\* count / totalVotes, of two natural numbers, totalVotes > 0: the quotient
\* to 7 limbs after the point, rounded to the precision.
Divide(count, totalVotes) ==
    IF count = 0 THEN ZeroNumber
    ELSE LET q == count \div totalVotes
             r == count % totalVotes
             z == IF q > 0 THEN 0 ELSE LeadingZeros(r, totalVotes)
             frac == Expand(Shift(r, z), totalVotes, 7)
             whole == IF q > 0 THEN NatBits(q) ELSE <<>>
         IN  RoundToNearestEven(
                 StripZeros(whole \o LimbsBits(SubSeq(frac, 1, 7))),
                 frac[8] # 0,
                 IF q > 0 THEN Len(whole) - 1 ELSE -(z + 1))

\* limbs * k + carry, of a natural number k > 0: the limbs of the product,
\* the carry out of the most significant limb first.
RECURSIVE TimesNat(_, _, _)
TimesNat(limbs, k, carry) ==
    IF limbs = <<>> THEN <<carry>>
    ELSE Append(TimesNat(SubSeq(limbs, 1, Len(limbs) - 1), k,
                         (limbs[Len(limbs)] * k + carry) \div Shift(1, 9)),
                (limbs[Len(limbs)] * k + carry) % Shift(1, 9))

\* x * k, of a Number x and a natural number k, 0 < k < 2^9
Multiply(x, k) ==
    IF x.zero THEN ZeroNumber
    ELSE LET product == StripZeros(LimbsBits(TimesNat(BitsLimbs(<<0>> \o x.bits), k, 0)))
             exp == x.exp + (Len(product) - Precision)
         IN  IF Len(product) = Precision
             THEN [zero |-> FALSE, bits |-> product, exp |-> exp]
             ELSE RoundToNearestEven(product, FALSE, exp)

\* Math.round(x): the integer nearest to x, the larger one of two that are
\* equally near; for x below 2^52.
MathRound(x) ==
    IF x.zero \/ x.exp < -1 THEN 0
    ELSE IF x.exp = -1 THEN 1
    ELSE BitsNat(SubSeq(x.bits, 1, x.exp + 1)) + x.bits[x.exp + 2]

\* totalVotes > 0 ? Math.round((votes / totalVotes) * 100) : 0
Percentage(count, totalVotes) ==
    IF totalVotes > 0 THEN MathRound(Multiply(Divide(count, totalVotes), 100))
    ELSE 0

---------------------------------------------------------------------------
(* The results page *)

\* const mockPoll = {id, question, options}
MockPoll ==
    [options |-> <<"JavaScript", "Python", "TypeScript", "Java", "Go">>]

\* const mockResults = {...}
MockResults ==
    [JavaScript |-> 45, Python |-> 32, TypeScript |-> 28, Java |-> 15, Go |-> 12]

\* useState<Record<string, number> | null>(null)
NullResults == [pollId |-> 0, tally |-> <<>>, set |-> FALSE]

\* searchParams.get('vote') when the address has no vote
NoVote == "null"

\* Object.values(mockResults).reduce((sum, votes) => sum + votes, 0)
RECURSIVE SumOver(_, _)
SumOver(counts, keys) ==
    IF keys = {} THEN 0
    ELSE LET k == CHOOSE x \in keys : TRUE
         IN  counts[k] + SumOver(counts, keys \ {k})

TotalVotes(counts) == SumOver(counts, DOMAIN counts)

\* mockResults[option] || 0
CountOrZero(counts, option) ==
    IF option \in DOMAIN counts THEN counts[option] ELSE 0

\* The page renders one line per option of the poll: the option, marked
\* when it is the visitor's vote, its votes and its percentage.
ResultsPage(userVote) ==
    /\ rendered' =
           [i \in DOMAIN mockPoll.options |->
               [option |-> mockPoll.options[i],
                voted |-> mockPoll.options[i] = userVote,
                votes |-> CountOrZero(mockResults, mockPoll.options[i]),
                percentage |->
                    Percentage(CountOrZero(mockResults, mockPoll.options[i]),
                               TotalVotes(mockResults))]]
    /\ response' = NoResponse
    /\ UNCHANGED <<polls, votes, nextPollId, nextVoteId, now, reqs>>
    /\ UNCHANGED <<alxPolls, poll_options, results, mockPoll, mockResults, thrown, pollForm, authContext>>

---------------------------------------------------------------------------
(* The Poll component: fetchResults and handleVote *)

\* CREATE TABLE votes
VoteColumns == {"id", "poll_id", "user_id", "option_index", "created_at"}

ColumnErrorMessage == "column votes.option does not exist"

\* supabase.from("votes").select(columns).eq("poll_id", pollId): the rows of
\* the poll, or the store's error for a column the table does not have.
SelectVotes(columns, pollId, dbOk) ==
    IF ~dbOk THEN [error |-> DbErrorMessage, data |-> {}]
    ELSE IF ~(columns \subseteq VoteColumns)
    THEN [error |-> ColumnErrorMessage, data |-> {}]
    ELSE [error |-> NoError, data |-> GatewaySelect(votes, [poll_id |-> pollId])]

\* The orders in which the store may return a set of rows.
RowOrders(rows) ==
    {s \in [1..Cardinality(rows) -> rows] :
        \A i, j \in DOMAIN s : i # j => s[i] # s[j]}

\* data.reduce((acc, vote) => { acc[vote.option] = vote.count; return acc }, {})
ResultsData(data) ==
    [option \in {data[i].option : i \in DOMAIN data} |->
        LET last == CHOOSE i \in DOMAIN data :
                        /\ data[i].option = option
                        /\ \A j \in DOMAIN data : data[j].option = option => j <= i
        IN  data[last].count]

\* The select of fetchResults and of handleVote's refresh, and what it
\* leaves in results: on an error the results are left as they were.
SetResults(pollId, answer) ==
    IF answer.error # NoError THEN results' = results
    ELSE \E data \in RowOrders(answer.data) :
             results' = [pollId |-> pollId, tally |-> ResultsData(data), set |-> TRUE]

FetchResults(pollId, dbOk) ==
    /\ UNCHANGED <<polls, votes, nextPollId, nextVoteId, now, reqs>>
    /\ UNCHANGED <<alxPolls, poll_options, mockPoll, mockResults, rendered, thrown, pollForm, authContext>>
    /\ LET answer == SelectVotes({"option", "count"}, pollId, dbOk)
       IN  /\ SetResults(pollId, answer)
           /\ Respond("fetchResults", NoUser, pollId, answer.error, <<>>)

\* The option buttons are those of the poll the component has loaded; the
\* caller's session is null when they are not logged in.
HandleVoteCall(session, pollId, selectedOption) ==
    /\ nextVoteId + CountOf("vote") + CountOf("submitVote") <= MaxVotes
    /\ BagCardinality(reqs) < MaxPending
    /\ \E p \in polls :
           /\ p.id = pollId
           /\ selectedOption = NullValue
              \/ \E i \in DOMAIN p.options : p.options[i] = selectedOption
    /\ UNCHANGED <<polls, votes, nextPollId, nextVoteId, now>>
    /\ UNCHANGED otherVars
    /\ IF ~Truthy(selectedOption)
       THEN /\ Respond("handleVote", session, pollId,
                  "Please select an option to vote.", <<>>)
            /\ UNCHANGED reqs
       ELSE IF session = NoUser
       THEN /\ Respond("handleVote", session, pollId, "Please log in to vote.", <<>>)
            /\ UNCHANGED reqs
       ELSE /\ Suspend(Request("vote", session, pollId, NullValue,
                  <<selectedOption>>, 0, NoSettings))
            /\ response' = NoResponse

\* The function `vote' of the store, which the repository calls and does
\* not define: the submitVote of the specification, its preconditions in
\* their order, then one row in votes.
VoteError(r) ==
    LET found == GatewaySelect(polls, [id |-> r.pollId])
        poll == CHOOSE p \in found : TRUE
    IN  IF found = {} THEN "NotFound"
        ELSE IF Closed(poll) THEN "Conflict: poll closed"
        ELSE IF \A i \in DOMAIN poll.options : poll.options[i] # r.options[1]
        THEN "ValidationError: invalid option"
        ELSE IF poll.requireAuthentication /\ r.user = NoUser THEN "Unauthorized"
        ELSE IF /\ ~poll.allowMultipleVotes
                /\ r.user # NoUser
                /\ \E v \in votes : v.poll_id = r.pollId /\ v.user_id = r.user
        THEN "Conflict: already voted"
        ELSE NoError

VoteRowOfOption(r) ==
    LET poll == CHOOSE p \in polls : p.id = r.pollId
        index == CHOOSE i \in DOMAIN poll.options : poll.options[i] = r.options[1]
    IN  VoteRow(nextVoteId, r.pollId, r.user, index - 1)

\* await supabase.rpc('vote', {poll_id, option}), and the alert of its error
HandleVoteRpc(r, dbOk) ==
    /\ r \in PendingOf("vote")
    /\ UNCHANGED <<polls, nextPollId, now>>
    /\ UNCHANGED otherVars
    /\ LET error == IF dbOk THEN VoteError(r) ELSE DbErrorMessage
       IN  IF error # NoError
           THEN /\ Resume(r)
                /\ UNCHANGED <<votes, nextVoteId>>
                /\ Respond("handleVote", r.user, r.pollId, error, <<>>)
           ELSE /\ votes' = votes \cup {VoteRowOfOption(r)}
                /\ nextVoteId' = nextVoteId + 1
                /\ reqs' = (reqs (-) SetToBag({r})) (+)
                       SetToBag({[r EXCEPT !.op = "refreshResults"]})
                /\ Respond("handleVote", r.user, r.pollId, NoError, <<>>)

\* "Refresh results": the select of fetchResults again
HandleVoteRefresh(r, dbOk) ==
    /\ r \in PendingOf("refreshResults")
    /\ Resume(r)
    /\ UNCHANGED <<polls, votes, nextPollId, nextVoteId, now>>
    /\ UNCHANGED <<alxPolls, poll_options, mockPoll, mockResults, rendered, thrown, pollForm, authContext>>
    /\ LET answer == SelectVotes({"option", "count"}, r.pollId, dbOk)
       IN  /\ SetResults(r.pollId, answer)
           /\ Respond("fetchResults", r.user, r.pollId, answer.error, <<>>)

---------------------------------------------------------------------------
(* Inputs *)

SeqsUpTo(S, n) == UNION {[1..k -> S] : k \in 0..n}

\* One option more than the documented maximum, all distinct.
LongOptions == [i \in 1..(MaxPollOptions + 1) |-> Str([j \in 1..i |-> "a"])]

OptionValues ==
    {Str(<<>>), Str(<<" ">>), Str(<<"a">>), Str(<<"b">>), Str(<<" ", "a">>), FileValue}

QuestionValues == {Str(<<>>), Str(<<" ">>), Str(<<"q">>), FileValue}

AllForms ==
    [question : QuestionValues,
     options : SeqsUpTo(OptionValues, MaxOptions) \cup {LongOptions}]

ValidForm == [question |-> Str(<<"q">>), options |-> <<Str(<<"a">>), Str(<<"b">>)>>]

EditedForm == [question |-> Str(<<"x">>), options |-> <<Str(<<"b">>), Str(<<"a">>)>>]

AllSettings ==
    [allowMultipleVotes : BOOLEAN, requireAuthentication : BOOLEAN,
     endDate : {NoDate} \cup 1..MaxTime]

PollIds == 1..MaxPolls

\* A poll of three options, and vote counts for the first two of them.
ShownPoll == [options |-> <<"A", "B", "C">>]

ShownResults == [{"A", "B"} -> 0..MaxCount]

OptionIndexes == 0..MaxOptions

---------------------------------------------------------------------------
(* Specification: user A creates polls; A, B and callers who are not        *)
(* logged in update, delete and read them concurrently.  The identity      *)
(* provider and the store may fail any request.                            *)

Init ==
    /\ polls = {}
    /\ votes = {}
    /\ nextPollId = 1
    /\ nextVoteId = 1
    /\ now = 0
    /\ reqs = EmptyBag
    /\ response = NoResponse
    /\ alxPolls = {}
    /\ poll_options = {}
    /\ results = NullResults
    /\ mockPoll = MockPoll
    /\ mockResults = MockResults
    /\ rendered = <<>>
    /\ thrown = {}
    /\ pollForm = InitialForm("part_003")
    /\ authContext = InitialAuth

Next ==
    \/ \E actor \in {"A", NoUser}, authOk \in BOOLEAN :
           CreatePollCall(actor, authOk, ValidForm, NoSettings)
    \/ \E r \in Pending, dbOk \in BOOLEAN : CreatePollCommit(r, dbOk)
    \/ \E actor \in Actors, authOk \in BOOLEAN, pollId \in PollIds :
           UpdatePollCall(actor, authOk, pollId, EditedForm)
    \/ \E r \in Pending, dbOk \in BOOLEAN : UpdatePollCommit(r, dbOk)
    \/ \E actor \in Actors, authOk \in BOOLEAN, pollId \in PollIds :
           DeletePollCall(actor, authOk, pollId)
    \/ \E r \in Pending, dbOk \in BOOLEAN : DeletePollCommit(r, dbOk)
    \/ \E pollId \in PollIds, dbOk \in BOOLEAN : GetPollById(pollId, dbOk)

Spec == Init /\ [][Next]_vars

---------------------------------------------------------------------------
(* Specification: user A creates one poll, of any settings; every caller   *)
(* votes on it (or on an id that has no poll) concurrently, while time     *)
(* passes and A may delete the poll                                        *)

NextVote ==
    \/ \E settings \in AllSettings :
           /\ nextPollId = 1
           /\ CountOf("createPoll") = 0
           /\ CreatePollCall("A", TRUE, ValidForm, settings)
    \/ \E r \in Pending : CreatePollCommit(r, TRUE)
    \/ \E actor \in Actors, authOk \in BOOLEAN, pollId \in PollIds,
          optionIndex \in OptionIndexes :
           SubmitVoteCall(actor, authOk, pollId, optionIndex)
    \/ \E r \in Pending, dbOk \in BOOLEAN : SubmitVoteCommit(r, dbOk)
    \/ \E pollId \in PollIds : DeletePollCall("A", TRUE, pollId)
    \/ \E r \in Pending : DeletePollCommit(r, TRUE)
    \/ Tick

SpecVote == Init /\ [][NextVote]_vars

---------------------------------------------------------------------------
(* Specification: createPoll of the alx-polly and New-poll variants *)

NextAlx ==
    \/ \E actor \in Actors, form \in AllForms :
           CreatePollAlxCall(actor, form, NoSettings)
    \/ \E r \in Pending, dbOk \in BOOLEAN : CreatePollAlxInsertPoll(r, dbOk)
    \/ \E r \in Pending, dbOk \in BOOLEAN : CreatePollAlxInsertOptions(r, dbOk)
    \/ \E actor \in Actors, form \in AllForms :
           CreatePollNewCall(actor, form, NoSettings)
    \/ \E r \in Pending, dbOk \in BOOLEAN : CreatePollNewRpc(r, dbOk)

SpecAlx == Init /\ [][NextAlx]_vars

---------------------------------------------------------------------------
(* Specification: createPoll and updatePoll on every form input, one       *)
(* request at a time, on the first poll created                            *)

NextForms ==
    \/ \E actor \in Actors, authOk \in BOOLEAN, form \in AllForms :
           /\ reqs = EmptyBag
           /\ nextPollId = 1
           /\ CreatePollCall(actor, authOk, form, NoSettings)
    \/ \E r \in Pending, dbOk \in BOOLEAN : CreatePollCommit(r, dbOk)
    \/ \E actor \in Actors, authOk \in BOOLEAN, pollId \in PollIds, form \in AllForms :
           /\ reqs = EmptyBag
           /\ UpdatePollCall(actor, authOk, pollId, form)
    \/ \E r \in Pending, dbOk \in BOOLEAN : UpdatePollCommit(r, dbOk)

SpecForms == Init /\ [][NextForms]_vars

---------------------------------------------------------------------------
(* Specification: user A creates polls; A and B update and delete the       *)
(* first of them, and B and callers who are not logged in vote on any id,  *)
(* concurrently, before a poll exists, while it is stored and after it is  *)
(* deleted; the store may fail an update or a delete                       *)

NextOwner ==
    \/ CreatePollCall("A", TRUE, ValidForm, NoSettings)
    \/ \E r \in Pending : CreatePollCommit(r, TRUE)
    \/ \E actor \in Users : UpdatePollCall(actor, TRUE, 1, EditedForm)
    \/ \E r \in Pending, dbOk \in BOOLEAN : UpdatePollCommit(r, dbOk)
    \/ \E actor \in {"B", NoUser}, pollId \in PollIds :
           SubmitVoteCall(actor, TRUE, pollId, 0)
    \/ \E r \in Pending : SubmitVoteCommit(r, TRUE)
    \/ \E actor \in Users : DeletePollCall(actor, TRUE, 1)
    \/ \E r \in Pending, dbOk \in BOOLEAN : DeletePollCommit(r, dbOk)

SpecOwner == Init /\ [][NextOwner]_vars

---------------------------------------------------------------------------
(* Specification: the results page, on the poll and the counts of the      *)
(* source and on a poll of three options with every count of votes for    *)
(* two of them, for a visitor who comes with or without a vote             *)

InitResults ==
    /\ polls = {}
    /\ votes = {}
    /\ nextPollId = 1
    /\ nextVoteId = 1
    /\ now = 0
    /\ reqs = EmptyBag
    /\ response = NoResponse
    /\ alxPolls = {}
    /\ poll_options = {}
    /\ results = NullResults
    /\ rendered = <<>>
    /\ thrown = {}
    /\ pollForm = InitialForm("part_003")
    /\ authContext = InitialAuth
    /\ \/ mockPoll = MockPoll /\ mockResults = MockResults
       \/ mockPoll = ShownPoll /\ mockResults \in ShownResults

NextResults ==
    \E userVote \in {NoVote, mockPoll.options[1]} : ResultsPage(userVote)

SpecResults == InitResults /\ [][NextResults]_vars

---------------------------------------------------------------------------
(* Specification: user A creates one poll, open to every caller or         *)
(* restricted; B and callers who are not logged in vote on it through      *)
(* submitVote and through the Poll component, concurrently, while time     *)
(* passes and A may delete the poll; the component fetches its results     *)
(* and the results page is shown                                           *)

RestrictedSettings ==
    [allowMultipleVotes |-> FALSE, requireAuthentication |-> TRUE, endDate |-> MaxTime]

NextPoll ==
    \/ \E settings \in {NoSettings, RestrictedSettings} :
           /\ nextPollId = 1
           /\ CountOf("createPoll") = 0
           /\ CreatePollCall("A", TRUE, ValidForm, settings)
    \/ \E r \in Pending : CreatePollCommit(r, TRUE)
    \/ \E actor \in {"B", NoUser}, optionIndex \in {0, 1} :
           SubmitVoteCall(actor, TRUE, 1, optionIndex)
    \/ \E r \in Pending : SubmitVoteCommit(r, TRUE)
    \/ \E session \in {"B", NoUser},
          selectedOption \in {NullValue} \cup {ValidForm.options[i] : i \in 1..2} :
           HandleVoteCall(session, 1, selectedOption)
    \/ \E r \in Pending, dbOk \in BOOLEAN : HandleVoteRpc(r, dbOk)
    \/ \E r \in Pending, dbOk \in BOOLEAN : HandleVoteRefresh(r, dbOk)
    \/ \E dbOk \in BOOLEAN : FetchResults(1, dbOk)
    \/ ResultsPage(NoVote)
    \/ DeletePollCall("A", TRUE, 1)
    \/ \E r \in Pending : DeletePollCommit(r, TRUE)
    \/ Tick

SpecPoll == Init /\ [][NextPoll]_vars

---------------------------------------------------------------------------
(* Specification: users A and B create polls and delete the first one;     *)
(* A, B and callers who are not logged in list their polls, concurrently,  *)
(* while time passes; the identity provider and the store may fail a       *)
(* listing                                                                 *)

NextList ==
    \/ \E actor \in Users : CreatePollCall(actor, TRUE, ValidForm, NoSettings)
    \/ \E r \in Pending : CreatePollCommit(r, TRUE)
    \/ \E actor \in Actors, authOk \in BOOLEAN : GetUserPollsCall(actor, authOk)
    \/ \E r \in Pending, dbOk \in BOOLEAN : GetUserPollsCommit(r, dbOk)
    \/ \E actor \in Users : DeletePollCall(actor, TRUE, 1)
    \/ \E r \in Pending : DeletePollCommit(r, TRUE)
    \/ Tick

SpecList == Init /\ [][NextList]_vars

---------------------------------------------------------------------------
(* Specification: user A creates, updates and deletes a poll and lists     *)
(* their polls, and callers who are not logged in vote on it and read it;  *)
(* the identity provider and the store may fail any request, and a call    *)
(* may find that no client can be created                                  *)

NextClient ==
    \/ \E authOk \in BOOLEAN :
           /\ nextPollId = 1
           /\ CreatePollCall("A", authOk, ValidForm, NoSettings)
    \/ \E r \in Pending, dbOk \in BOOLEAN : CreatePollCommit(r, dbOk)
    \/ \E authOk \in BOOLEAN : GetUserPollsCall("A", authOk)
    \/ \E r \in Pending, dbOk \in BOOLEAN : GetUserPollsCommit(r, dbOk)
    \/ \E dbOk \in BOOLEAN : GetPollById(1, dbOk)
    \/ \E authOk \in BOOLEAN : SubmitVoteCall(NoUser, authOk, 1, 0)
    \/ \E r \in Pending, dbOk \in BOOLEAN : SubmitVoteCommit(r, dbOk)
    \/ \E authOk \in BOOLEAN : UpdatePollCall("A", authOk, 1, EditedForm)
    \/ \E r \in Pending, dbOk \in BOOLEAN : UpdatePollCommit(r, dbOk)
    \/ \E authOk \in BOOLEAN : DeletePollCall("A", authOk, 1)
    \/ \E r \in Pending, dbOk \in BOOLEAN : DeletePollCommit(r, dbOk)
    \/ \E op \in PublicOperations, actor \in {"A", NoUser} :
           CallWithoutClient(op, actor)

SpecClient == Init /\ [][NextClient]_vars

---------------------------------------------------------------------------
(* Specification: a visitor edits and submits the CreatePollForm, in each   *)
(* of its versions; the form's call of createPoll is served by the store   *)
(* or failed                                                               *)

TitleValues == {<<>>, <<" ">>, <<"q">>}

TextValues == {<<>>, <<" ">>, <<"a">>}

InitForm ==
    /\ polls = {}
    /\ votes = {}
    /\ nextPollId = 1
    /\ nextVoteId = 1
    /\ now = 0
    /\ reqs = EmptyBag
    /\ response = NoResponse
    /\ alxPolls = {}
    /\ poll_options = {}
    /\ results = NullResults
    /\ mockPoll = MockPoll
    /\ mockResults = MockResults
    /\ rendered = <<>>
    /\ thrown = {}
    /\ \E version \in FormVersions : pollForm = InitialForm(version)
    /\ authContext = InitialAuth

NextForm ==
    \/ \E value \in TitleValues : SetTitle(value)
    \/ \E index \in {0, 1}, value \in TextValues : HandleOptionChange(index, value)
    \/ HandleAddOption
    \/ AddOption
    \/ \E index \in {0, 2} : HandleRemoveOption(index)
    \/ \E index \in {0, 2} : RemoveOption(index)
    \/ HandleSubmit
    \/ \E formData \in {SubmitEvent, FormDataOf(pollForm.title)} :
           HandleSubmitFormData(formData)
    \/ CallStarted /\ CreatePollAlxCall(NoUser, pollForm.pollData, FormSettings)
    \/ \E r \in Pending, dbOk \in BOOLEAN : CreatePollAlxInsertPoll(r, dbOk)
    \/ \E r \in Pending, dbOk \in BOOLEAN : CreatePollAlxInsertOptions(r, dbOk)
    \/ HandleSubmitResult

SpecForm == InitForm /\ [][NextForm]_vars

---------------------------------------------------------------------------
(* Specification: the AuthProvider is mounted; the answer of its getUser   *)
(* and the auth state changes of the client arrive in every order, and     *)
(* the component may be unmounted at any time                              *)

NextAuth ==
    \/ \E session \in Sessions \cup {NoSession} : OnAuthStateChange(session)
    \/ \E authOk \in BOOLEAN : GetUserAnswer(authOk)
    \/ Unmount

SpecAuth == Init /\ [][NextAuth]_vars

---------------------------------------------------------------------------
(* Properties of the poll actions *)

\* C1: a deletePoll by an authenticated user who does not own the poll
\* leaves the poll's row in the store as it was, returns a null error
\* whenever the store serves the request, and the select of getPollById
\* still returns that row.
C1_NonOwnerDeleteKeepsPoll ==
    [][\A r \in PendingOf("deletePoll"), dbOk \in BOOLEAN, p \in polls :
          (DeletePollCommit(r, dbOk) /\ p.id = r.pollId /\ p.user_id # r.user)
          => /\ p \in polls'
             /\ GatewaySelect(polls', [id |-> p.id]) = {p}
             /\ dbOk => response'.error = NoError]_vars

\* A non-owner's deletePoll has returned success and the poll is still stored.
C1_Witness ==
    /\ response.op = "deletePoll"
    /\ response.error = NoError
    /\ \E p \in polls : p.id = response.pollId /\ p.user_id # response.user

\* C2: under every interleaving of the requests, a poll leaves the store
\* only in a step that is one delete request to the store whose filter is
\* the poll's id together with the poll owner's user id.
C2_RemovedOnlyByOwnerScopedDelete ==
    [][\A p \in polls :
          (\A q \in polls' : q.id # p.id)
          => \E r \in PendingOf("deletePoll") :
                 /\ DeletePollCommit(r, TRUE)
                 /\ DeletePollFilter(r) = [id |-> p.id, user_id |-> p.user_id]]_vars

\* The owner's delete has removed a poll while a request of another user
\* was suspended.
C2_Witness ==
    /\ response.op = "deletePoll"
    /\ response.error = NoError
    /\ response.pollId < nextPollId
    /\ \A p \in polls : p.id # response.pollId
    /\ \E r \in Pending : r.user # response.user

\* C3 as claimed: an updatePoll by an authenticated user who does not own
\* the poll returns a non-null error and leaves the poll's row as it was.
C3_NonOwnerUpdateForbidden ==
    [][\A r \in PendingOf("updatePoll"), dbOk \in BOOLEAN, p \in polls :
          (UpdatePollCommit(r, dbOk) /\ p.id = r.pollId /\ p.user_id # r.user)
          => /\ response'.error # NoError
             /\ p \in polls']_vars

\* The option texts of a form after trimming, dropping the empty ones and
\* removing duplicates.
DistinctOptionTexts(options) ==
    {Trim(options[i].s) : i \in {j \in DOMAIN options : IsString(options[j])}}
        \ {<<>>}

\* C4 as claimed: a createPoll whose options, after trimming, dropping
\* empties and removing duplicates, number fewer than 2 returns an error
\* and issues no insert to the store.
C4_FewerThanTwoDistinctRejected ==
    [][\A actor \in Actors, authOk \in BOOLEAN, form \in AllForms :
          (/\ CreatePollCall(actor, authOk, form, NoSettings)
           /\ Cardinality(DistinctOptionTexts(form.options)) < 2)
          => /\ response'.op = "createPoll"
             /\ response'.error # NoError
             /\ reqs' = reqs]_vars

\* C5 as claimed: a createPoll with more than 10 options returns an error
\* and no poll is persisted.
C5_MoreThanTenRejected ==
    [][/\ \A actor \in Actors, authOk \in BOOLEAN, form \in AllForms :
             (/\ CreatePollCall(actor, authOk, form, NoSettings)
              /\ Len(form.options) > MaxPollOptions)
             => /\ response'.op = "createPoll"
                /\ response'.error # NoError
                /\ reqs' = reqs
       /\ \A p \in polls' : Len(p.options) <= MaxPollOptions]_vars

\* C6 as claimed: a poll row is persisted only for an authenticated caller,
\* with that caller as its owner, and a createPoll of a caller who is not
\* authenticated returns an error and writes nothing.
C6_OwnerIsAuthenticatedCreator ==
    [][/\ \A r \in PendingOf("createPoll"), dbOk \in BOOLEAN :
             CreatePollCommit(r, dbOk)
             => \A p \in polls' \ polls : r.user \in Users /\ p.user_id = r.user
       /\ \A r \in PendingOf("createPollAlx"), dbOk \in BOOLEAN :
             CreatePollAlxInsertPoll(r, dbOk)
             => \A p \in alxPolls' \ alxPolls :
                    r.user \in Users /\ p.creator_id = r.user
       /\ \A r \in PendingOf("createPollNew"), dbOk \in BOOLEAN :
             CreatePollNewRpc(r, dbOk)
             => \A p \in alxPolls' \ alxPolls :
                    r.user \in Users /\ p.creator_id = r.user
       /\ \A form \in AllForms, authOk \in BOOLEAN :
             \/ CreatePollCall(NoUser, authOk, form, NoSettings)
             \/ CreatePollAlxCall(NoUser, form, NoSettings)
             \/ CreatePollNewCall(NoUser, form, NoSettings)
             => response'.error # NoError /\ reqs' = reqs]_vars

---------------------------------------------------------------------------
(* Properties of submitVote *)

VotesOf(voteTable, pollId) == {v \in voteTable : v.poll_id = pollId}

\* C7 as claimed: on a poll with allowMultipleVotes = false, a submitVote
\* of a user who already has a vote on the poll returns an error and
\* persists no vote.
C7_SecondVoteRejected ==
    [][\A r \in PendingOf("submitVote"), dbOk \in BOOLEAN, p \in polls :
          (/\ SubmitVoteCommit(r, dbOk)
           /\ p.id = r.pollId
           /\ ~p.allowMultipleVotes
           /\ r.user \in Users
           /\ \E v \in VotesOf(votes, p.id) : v.user_id = r.user)
          => /\ response'.error # NoError
             /\ votes' = votes]_vars

\* C8 as claimed: on a poll with allowMultipleVotes = false and
\* requireAuthentication = true, no user has two votes.
C8_OneVotePerUser ==
    \A p \in polls :
        (~p.allowMultipleVotes /\ p.requireAuthentication)
        => \A v1, v2 \in VotesOf(votes, p.id) :
               (v1.user_id \in Users /\ v1.user_id = v2.user_id) => v1 = v2

\* C9 as claimed: a submitVote on a poll whose endDate has been reached
\* returns an error and persists no vote, so the votes of a closed poll
\* never grow.
C9_ClosedPollRejectsVotes ==
    [][\A p \in polls :
          Closed(p)
          => /\ VotesOf(votes', p.id) \subseteq VotesOf(votes, p.id)
             /\ \A r \in PendingOf("submitVote"), dbOk \in BOOLEAN :
                    (SubmitVoteCommit(r, dbOk) /\ r.pollId = p.id)
                    => response'.error # NoError]_vars

\* C10 as claimed: on a poll with requireAuthentication = true, a
\* submitVote with no authenticated user returns an error, and the poll has
\* no vote with a null user_id.
C10_AnonymousVoteRejected ==
    [][/\ \A r \in PendingOf("submitVote"), dbOk \in BOOLEAN, p \in polls :
             (/\ SubmitVoteCommit(r, dbOk)
              /\ p.id = r.pollId
              /\ p.requireAuthentication
              /\ r.user = NoUser)
             => response'.error # NoError
       /\ \A p \in polls' :
             p.requireAuthentication
             => \A v \in VotesOf(votes', p.id) : v.user_id # NoUser]_vars

---------------------------------------------------------------------------
(* Properties of createPoll, updatePoll and deletePoll, continued *)

\* C12 as claimed: a createPoll that returns an error has persisted nothing:
\* when the insert of a new poll's options fails, neither the poll's row nor
\* any option of it is in the store.
C12_FailedCreatePersistsNothing ==
    [][/\ \A r \in PendingOf("createPollAlxOptions"), dbOk \in BOOLEAN :
             (CreatePollAlxInsertOptions(r, dbOk) /\ response'.error # NoError)
             => /\ \A p \in alxPolls' : p.id # r.pollId
                /\ \A o \in poll_options' : o.poll_id # r.pollId
       /\ \A r \in PendingOf("createPollNew"), dbOk \in BOOLEAN :
             (CreatePollNewRpc(r, dbOk) /\ response'.error # NoError)
             => /\ alxPolls' = alxPolls
                /\ poll_options' = poll_options]_vars

\* C16: a deletePoll the store serves returns a null error whether or not
\* a row matched; when no stored poll has the request's id and user, as
\* for a poll that never existed or one the owner has already deleted, the
\* polls and votes tables are left exactly as they were.
C16_DeleteIdempotent ==
    [][\A r \in PendingOf("deletePoll") :
          DeletePollCommit(r, TRUE)
          => /\ response'.error = NoError
             /\ GatewayDelete(polls', DeletePollFilter(r)) = polls'
             /\ GatewaySelect(polls, DeletePollFilter(r)) = {}
                => polls' = polls /\ votes' = votes]_vars

\* A deletePoll on an id that no poll ever had has returned success, with a
\* poll in the store.
C16_Witness ==
    /\ response.op = "deletePoll"
    /\ response.error = NoError
    /\ response.user \in Users
    /\ response.pollId >= nextPollId
    /\ polls # {}

\* C17 as claimed: every stored poll has at least 2 options and every
\* stored option is a text that is non-empty after trimming.
C17_StoredOptionsValid ==
    \A p \in polls :
        /\ Len(p.options) >= 2
        /\ \A i \in DOMAIN p.options :
               IsString(p.options[i]) /\ Trim(p.options[i].s) # <<>>

\* C18 as claimed: an owner's updatePoll rejects a (question, options)
\* input exactly when createPoll rejects it on validation grounds.
C18_UpdateValidatesAsCreate ==
    [][/\ \A actor \in Users, form \in AllForms :
             CreatePollCall(actor, TRUE, form, NoSettings)
             => (reqs' = reqs <=> CreatePollInvalid(form))
       /\ \A actor \in Users, pollId \in PollIds, form \in AllForms :
             (/\ UpdatePollCall(actor, TRUE, pollId, form)
              /\ \E p \in polls : p.id = pollId /\ p.user_id = actor)
             => /\ reqs' = reqs <=> CreatePollInvalid(form)
                /\ reqs' = reqs => response'.error # NoError]_vars

\* C19: the user_id of a stored poll is the authenticated caller of the
\* createPoll that inserted it, and no step of updatePoll, submitVote or
\* deletePoll, successful or failed, changes the user_id of a poll that
\* stays in the store.
C19_OwnerNeverReassigned ==
    [][/\ \A p \in polls, q \in polls' : q.id = p.id => q.user_id = p.user_id
       /\ \A q \in polls' :
             (\A p \in polls : p.id # q.id)
             => \E r \in PendingOf("createPoll") :
                    CreatePollCommit(r, TRUE) /\ q.user_id = r.user]_vars

\* A poll of A has been edited and voted on, and a delete of it by B has
\* returned, with the poll still A's.
C19_Witness ==
    /\ response.op = "deletePoll"
    /\ response.user = "B"
    /\ \E p \in polls :
           /\ p.id = response.pollId
           /\ p.user_id = "A"
           /\ p.question = EditedForm.question
           /\ VotesOf(votes, p.id) # {}

\* C20: after every step, every stored vote's poll_id is the id of a
\* stored poll, and a submitVote whose poll_id no stored poll has returns
\* an error and persists no vote.
C20_VotesReferenceStoredPolls ==
    [][/\ \A v \in votes' : \E p \in polls' : p.id = v.poll_id
       /\ \A r \in PendingOf("submitVote"), dbOk \in BOOLEAN :
             (SubmitVoteCommit(r, dbOk) /\ \A p \in polls : p.id # r.pollId)
             => votes' = votes /\ response'.error # NoError]_vars

\* A submitVote on an id with no stored poll has been refused by the store
\* after a poll with votes was deleted.
C20_Witness ==
    /\ response.op = "submitVote"
    /\ response.error = FkErrorMessage
    /\ polls = {}
    /\ nextPollId > 1
    /\ nextVoteId > 1

---------------------------------------------------------------------------
(* Properties of the results *)

\* round(num / den): the integer nearest to num / den, the larger one of
\* two that are equally near.
Round(num, den) == (2 * num + den) \div (2 * den)

VoteCount(pollId, optionIndex) ==
    Cardinality({v \in VotesOf(votes, pollId) : v.option_index = optionIndex})

\* C11 as claimed: on a poll with requireAuthentication = false, a vote of
\* a caller with no authenticated user, through submitVote or through the
\* Poll component, succeeds and persists one vote with a null user_id, and
\* the results then fetched for the poll count the votes with a null
\* user_id.
C11_AnonymousVoteCounted ==
    [][\A p \in polls :
          ~p.requireAuthentication
          => /\ \A r \in PendingOf("submitVote") :
                    (SubmitVoteCommit(r, TRUE) /\ r.pollId = p.id /\ r.user = NoUser)
                    => /\ response'.error = NoError
                       /\ votes \subseteq votes'
                       /\ \E v \in votes' \ votes :
                              /\ votes' \ votes = {v}
                              /\ v.poll_id = p.id /\ v.user_id = NoUser
             /\ \A i \in DOMAIN p.options :
                    HandleVoteCall(NoUser, p.id, p.options[i])
                    => response'.error = NoError /\ PendingOf("vote")' # {}
             /\ (/\ FetchResults(p.id, TRUE)
                 /\ \E v \in VotesOf(votes, p.id) : v.user_id = NoUser)
                => /\ results'.set
                   /\ \A i \in DOMAIN p.options :
                          VoteCount(p.id, i - 1) > 0
                          => /\ p.options[i] \in DOMAIN results'.tally
                             /\ results'.tally[p.options[i]] = VoteCount(p.id, i - 1)]_vars

\* C13 as claimed: the results fetched for a poll, and the lines the
\* results page renders, have exactly the poll's options as their keys, an
\* option without votes with count 0.
C13_TallyEnumeratesOptions ==
    [][/\ \A p \in polls :
             FetchResults(p.id, TRUE)
             => /\ results'.set
                /\ DOMAIN results'.tally = {p.options[i] : i \in DOMAIN p.options}
                /\ \A i \in DOMAIN p.options :
                       VoteCount(p.id, i - 1) = 0 => results'.tally[p.options[i]] = 0
       /\ ResultsPage(NoVote)
          => /\ Len(rendered') = Len(mockPoll.options)
             /\ \A i \in DOMAIN rendered' :
                    /\ rendered'[i].option = mockPoll.options[i]
                    /\ mockPoll.options[i] \notin DOMAIN mockResults
                       => rendered'[i].votes = 0]_vars

\* C14 as claimed: every tally shown for a poll, by the Poll component when
\* its fetch is answered and by the results page, is the number of stored
\* vote rows of each option, and every submitVote that commits adds its one
\* row to the votes stored, in whichever order concurrent votes commit.
C14_TallyCountsVoteRows ==
    [][/\ \A r \in PendingOf("submitVote") :
             (SubmitVoteCommit(r, TRUE) /\ response'.error = NoError)
             => /\ votes \subseteq votes'
                /\ VoteCount(r.pollId, r.optionIndex)'
                       = VoteCount(r.pollId, r.optionIndex) + 1
       /\ \A p \in polls :
             /\ (FetchResults(p.id, TRUE) /\ results'.set)
                => \A i \in DOMAIN p.options :
                       VoteCount(p.id, i - 1) > 0
                       => /\ p.options[i] \in DOMAIN results'.tally
                          /\ results'.tally[p.options[i]] = VoteCount(p.id, i - 1)
             /\ ResultsPage(NoVote)
                => /\ Len(rendered') = Len(p.options)
                   /\ \A i \in DOMAIN rendered' :
                          rendered'[i].votes = VoteCount(p.id, i - 1)]_vars

---------------------------------------------------------------------------
(* Properties of the votes table and of the reads *)

\* C21 as claimed: no step of createPoll, updatePoll, deletePoll, submitVote
\* or a read changes or removes a stored vote: every vote row of a state is
\* a vote row, unchanged, of the next state.
C21_VotesNeverRemoved ==
    [][votes \subseteq votes']_vars

\* The rows of a sequence of rows.
RowsOf(data) == {data[i] : i \in DOMAIN data}

\* C22: every poll in the list getUserPolls returns has the caller as its
\* user_id: the list a served request returns is made of the stored polls of
\* the caller and of no other poll, whatever polls of other users are
\* stored, and a request that fails returns no poll.
C22_ListHoldsOnlyOwnPolls ==
    [][/\ \A r \in PendingOf("getUserPolls"), dbOk \in BOOLEAN :
             GetUserPollsCommit(r, dbOk)
             => /\ response'.user = r.user
                /\ \A p \in RowsOf(response'.data) : p.user_id = r.user
                /\ dbOk => RowsOf(response'.data) =
                               {p \in polls : p.user_id = r.user}
                /\ ~dbOk => response'.data = <<>>
       /\ \A actor \in Actors, authOk \in BOOLEAN :
             GetUserPollsCall(actor, authOk) => response'.data = <<>>]_vars

\* B has been returned a list of B's polls while a poll of A was stored.
C22_Witness ==
    /\ response.op = "getUserPolls"
    /\ response.error = NoError
    /\ response.user = "B"
    /\ response.data # <<>>
    /\ \E p \in polls : p.user_id = "A"

\* C23 as claimed: a getUserPolls with no authenticated user returns an
\* empty list and a null error.
C23_AnonymousListIsNotAnError ==
    [][\A actor \in Actors, authOk \in BOOLEAN :
          (GetUserPollsCall(actor, authOk) /\ GetUser(actor, authOk).user = NoUser)
          => /\ response'.op = "getUserPolls"
             /\ response'.data = <<>>
             /\ response'.error = NoError]_vars

---------------------------------------------------------------------------
(* Properties of the errors returned *)

\* The texts the store puts in error.message.
StoreMessages == {DbErrorMessage, FkErrorMessage, SingleErrorMessage}

\* C24 as claimed: when the store fails the request of a createPoll,
\* updatePoll, deletePoll or getPollById, the caller is returned an error
\* that is not the store's own error text.
C24_StoreErrorIsGeneric ==
    [][/\ \A r \in Pending :
             \/ CreatePollCommit(r, FALSE)
             \/ UpdatePollCommit(r, FALSE)
             \/ DeletePollCommit(r, FALSE)
             => response'.error # NoError /\ response'.error \notin StoreMessages
       /\ \A pollId \in PollIds :
             GetPollById(pollId, FALSE)
             => response'.error # NoError /\ response'.error \notin StoreMessages]_vars

\* C25 as claimed: every call of createPoll, getPollById, getUserPolls,
\* updatePoll, deletePoll and submitVote ends by returning a result whose
\* error is a text or null, and no exception leaves any of them, also when
\* no client can be created or the identity provider or the store fails.
C25_NoExceptionLeavesAnAction ==
    /\ thrown = {}
    /\ response.error \in STRING

---------------------------------------------------------------------------
(* Properties of the CreatePollForm component *)

\* C26 as claimed: after every sequence of add-option and remove-option
\* events from the initial 2 options, the form has between 2 and 10 option
\* inputs.
C26_OptionInputsBetweenTwoAndTen ==
    /\ Len(pollForm.options) >= 2
    /\ Len(pollForm.options) <= 10

\* C27 as claimed: a submit of the form with a title that is empty or
\* whitespace only, or with fewer than 2 non-blank options, sets the error
\* 'Title is required' or 'At least 2 options are required' and does not
\* call createPoll.
C27_InvalidSubmitSetsErrorWithoutCall ==
    [][\A formData \in {SubmitEvent, FormDataOf(pollForm.title)} :
          (/\ HandleSubmit \/ HandleSubmitFormData(formData)
           /\ \/ Trim(pollForm.title) = <<>>
              \/ Len(SelectSeq(pollForm.options, NonBlank)) < 2)
          => /\ pollForm'.error \in {"Title is required",
                                     "At least 2 options are required"}
             /\ pollForm'.called = pollForm.called
             /\ ~pollForm'.isPending]_vars

---------------------------------------------------------------------------
(* Properties of the order of createPoll's checks and of the options voted *)

\* The errors createPoll returns to a caller who is not authenticated.
UnauthorizedMessages ==
    {AuthErrorMessage, "You must be logged in to create a poll."}

\* C28 as claimed: createPoll checks the caller first: a createPoll of a
\* caller with no authenticated user returns the error of a caller who is
\* not authenticated, whatever its title and options, and issues no request
\* to the store.
C28_AuthenticationCheckedFirst ==
    [][\A actor \in Actors, authOk \in BOOLEAN, form \in AllForms :
          (/\ CreatePollCall(actor, authOk, form, NoSettings)
           /\ GetUser(actor, authOk).user = NoUser)
          => /\ response'.error \in UnauthorizedMessages
             /\ reqs' = reqs]_vars

\* C29 as claimed: in every state, the option_index of every stored vote is
\* the index of an option its poll currently has.
C29_VotesReferenceExistingOptions ==
    \A v \in votes :
        \A p \in polls :
            p.id = v.poll_id
            => v.option_index >= 0 /\ v.option_index < Len(p.options)

---------------------------------------------------------------------------
(* Properties of the AuthProvider component *)

\* C30 as claimed: while the component is mounted, once the answer of the
\* initial getUser and the auth state changes have all been processed, in
\* whichever order they arrived, the session held is the session of the
\* latest auth state change, and the user is non-null exactly when the
\* session is.
C30_SessionIsLatestEvent ==
    (/\ authContext.mounted
     /\ ~authContext.getUserPending
     /\ authContext.events > 0)
    => /\ authContext.session = authContext.latest
       /\ authContext.user # NoUser <=> authContext.session # NoSession

====
